---- MODULE Spec2Model ----
(***************************************************************************)
(* Model of the news client: ApiService (request construction), NewsPage   *)
(* (filter form, list fetches) and NewsDetailsPage (single-item fetch).    *)
(*                                                                         *)
(* Strings are sequences of atoms: every literal fragment of a template    *)
(* string of the source is one atom, and every tag name and identifier is  *)
(* one atom, so string concatenation is \o and '' is << >>.  The tag names *)
(* of NewsPage.tags are written in Latin transliteration.  None of them    *)
(* contains ',', '&', '?' or '='.                                          *)
(*                                                                         *)
(* A nullable value is << >> (null) or << v >> (the value v).              *)
(***************************************************************************)
EXTENDS Naturals, Sequences, FiniteSets

VARIABLES
    ngInit,        \* NewsPage: ngOnInit has run
    selectedTags,  \* NewsPage.filtersForm.selectedTags
    onlyConfirmed, \* NewsPage.filtersForm.onlyConfirmed
    newsList,      \* NewsPage.newsList signal
    reqs,          \* list requests issued so far, in issue order
    heldSeq,       \* index in reqs of the request whose response newsList holds
    last,          \* the last handler or callback that ran on NewsPage
    routeParam,    \* ActivatedRoute.snapshot.paramMap.get('id')
    store,         \* identifiers the remote collaborator holds
    dInit,         \* NewsDetailsPage: ngOnInit has run
    newsId,        \* NewsDetailsPage.newsId
    news,          \* NewsDetailsPage.news signal
    dReq,          \* the getNews request in flight, if any
    dIssued,       \* number of getNews requests issued
    dOutcome,      \* how the getNews request ended
    dResp          \* the item the getNews response carried, if any

listVars == <<ngInit, selectedTags, onlyConfirmed, newsList, reqs, heldSeq, last>>
detailVars == <<routeParam, store, dInit, newsId, news, dReq, dIssued, dOutcome, dResp>>
vars == <<ngInit, selectedTags, onlyConfirmed, newsList, reqs, heldSeq, last,
          routeParam, store, dInit, newsId, news, dReq, dIssued, dOutcome, dResp>>

\* ------------------------------------------------------------------ bounds

\* longest selectedTags array explored
MaxSelected == 2
\* most list requests issued (ngOnInit's included)
MaxRequests == 3

\* ------------------------------------------------------------- basic values

Null == << >>
Some(v) == << v >>

\* two of the thirteen entries of NewsPage.tags
tags == << <<"Finansy">>, <<"Fintekh">> >>

Range(s) == { s[i] : i \in 1..Len(s) }

baseUrl == <<"http://158.160.195.186/api">>

\* bodies the collaborator may answer a list request with (items by id)
NewsLists == { <<"1", "2", "3", "4", "5">>, << >> }

\* identifiers a detail route may carry, and those the collaborator may hold
RouteIds == { <<"1">>, <<"2">>, <<"3">>, <<"missing-id">> }
ItemIds == { <<"1">>, <<"2">>, <<"3">> }

\* ways a fetch ends on the error channel
ListErrors == { "transport", "status", "decode" }

\* ------------------------------------------------------------- ApiService

\* Array.prototype.join
RECURSIVE Join(_, _)
Join(parts, sep) ==
    IF Len(parts) = 0 THEN << >>
    ELSE IF Len(parts) = 1 THEN parts[1]
    ELSE parts[1] \o sep \o Join(Tail(parts), sep)

NonEmpty(param) == param # << >>

getAllNews_keepEmptyParams(filters) ==
    LET apiUrl == baseUrl \o <<"/news">> IN
    IF filters = Null THEN apiUrl
    ELSE
        LET f == filters[1]
            tagsString ==
                IF Len(f.tags) > 0 THEN <<"tags=">> \o Join(f.tags, <<",">>) ELSE << >>
            verifiedString ==
                IF f.onlyVerified THEN <<"onlyConfirmed=true">> ELSE << >>
            queryParams == Join(<<tagsString, verifiedString>>, <<"&">>)
        IN apiUrl \o (IF queryParams # << >> THEN <<"?">> \o queryParams ELSE << >>)

getAllNews_alwaysQuery(filters) ==
    LET apiUrl == baseUrl \o <<"/news">> IN
    IF filters = Null THEN apiUrl
    ELSE
        LET f == filters[1]
            tagsString ==
                IF Len(f.tags) > 0 THEN <<"tags=">> \o Join(f.tags, <<",">>) ELSE << >>
            verifiedString ==
                IF f.onlyVerified THEN <<"onlyConfirmed=true">> ELSE << >>
            queryParams ==
                Join(SelectSeq(<<tagsString, verifiedString>>, NonEmpty), <<"&">>)
        IN apiUrl \o <<"?">> \o queryParams

getAllNews_sortedTags(filters) ==
    LET apiUrl == baseUrl \o <<"/news">> IN
    IF filters = Null THEN apiUrl
    ELSE
        LET f == filters[1]
            sorted == SelectSeq(f.tags, LAMBDA t : t = tags[1])
                      \o SelectSeq(f.tags, LAMBDA t : t # tags[1])
            tagsString ==
                IF Len(f.tags) > 0 THEN <<"tags=">> \o Join(sorted, <<",">>) ELSE << >>
            verifiedString ==
                IF f.onlyVerified THEN <<"onlyConfirmed=true">> ELSE << >>
            queryParams ==
                Join(SelectSeq(<<tagsString, verifiedString>>, NonEmpty), <<"&">>)
        IN apiUrl \o (IF queryParams # << >> THEN <<"?">> \o queryParams ELSE << >>)

\* ApiService.getAllNews: the URL of the GET it issues
getAllNews(filters) ==
    LET apiUrl == baseUrl \o <<"/news">> IN
    IF filters = Null THEN apiUrl
    ELSE
        LET f == filters[1]
            tagsString ==
                IF Len(f.tags) > 0 THEN <<"tags=">> \o Join(f.tags, <<",">>) ELSE << >>
            verifiedString ==
                IF f.onlyVerified THEN <<"onlyConfirmed=true">> ELSE << >>
            queryParams ==
                Join(SelectSeq(<<tagsString, verifiedString>>, NonEmpty), <<"&">>)
        IN apiUrl \o (IF queryParams # << >> THEN <<"?">> \o queryParams ELSE << >>)

\* ApiService.getNews: the URL of the GET it issues
getNews(id) == baseUrl \o <<"/news/">> \o id

\* ---------------------------------------------------------------- NewsPage

NoCall ==
    [op |-> "none", tag |-> << >>, isChecked |-> FALSE, absent |-> FALSE,
     seq |-> 0, url |-> << >>, data |-> << >>, kind |-> "none"]

Pending == { s \in 1..Len(reqs) : reqs[s].status = "pending" }

NewsPage_ngOnInit ==
    /\ ~ngInit
    /\ Len(reqs) < MaxRequests
    /\ ngInit' = TRUE
    /\ reqs' = Append(reqs, [status |-> "pending", held |-> newsList])
    /\ last' = [NoCall EXCEPT !.op = "ngOnInit", !.seq = Len(reqs) + 1,
                              !.url = getAllNews(Null)]
    /\ UNCHANGED <<selectedTags, onlyConfirmed, newsList, heldSeq>>


\* the form binding of the onlyConfirmed checkbox
SetOnlyConfirmed(value) ==
    /\ ngInit
    /\ onlyConfirmed # value
    /\ onlyConfirmed' = value
    /\ last' = [NoCall EXCEPT !.op = "setOnlyConfirmed", !.isChecked = value]
    /\ UNCHANGED <<ngInit, selectedTags, newsList, reqs, heldSeq>>

onTagChange_invertedFilter(tag, isChecked) ==
    /\ ngInit
    /\ isChecked => Len(selectedTags) < MaxSelected
    /\ LET currentTags == selectedTags IN
        IF isChecked
        THEN selectedTags' = currentTags \o <<tag>>
        ELSE selectedTags' = SelectSeq(currentTags, LAMBDA t : t = tag)
    /\ last' = [NoCall EXCEPT !.op = "onTagChange", !.tag = tag,
                              !.isChecked = isChecked,
                              !.absent = (tag \notin Range(selectedTags))]
    /\ UNCHANGED <<ngInit, onlyConfirmed, newsList, reqs, heldSeq>>

onTagChange_autoSubmit(tag, isChecked) ==
    /\ ngInit
    /\ isChecked => Len(selectedTags) < MaxSelected
    /\ Len(reqs) < MaxRequests
    /\ LET currentTags == selectedTags IN
        IF isChecked
        THEN selectedTags' = currentTags \o <<tag>>
        ELSE selectedTags' = SelectSeq(currentTags, LAMBDA t : t # tag)
    /\ reqs' = Append(reqs, [status |-> "pending", held |-> newsList])
    /\ last' = [NoCall EXCEPT !.op = "onTagChange", !.tag = tag,
                              !.isChecked = isChecked,
                              !.absent = (tag \notin Range(selectedTags))]
    /\ UNCHANGED <<ngInit, onlyConfirmed, newsList, heldSeq>>

\* NewsPage.onTagChange
onTagChange(tag, isChecked) ==
    /\ ngInit
    /\ isChecked => Len(selectedTags) < MaxSelected
    /\ LET currentTags == selectedTags IN
        IF isChecked
        THEN selectedTags' = currentTags \o <<tag>>
        ELSE selectedTags' = SelectSeq(currentTags, LAMBDA t : t # tag)
    /\ last' = [NoCall EXCEPT !.op = "onTagChange", !.tag = tag,
                              !.isChecked = isChecked,
                              !.absent = (tag \notin Range(selectedTags))]
    /\ UNCHANGED <<ngInit, onlyConfirmed, newsList, reqs, heldSeq>>

onFiltersSubmit_clearsList ==
    /\ ngInit
    /\ Len(reqs) < MaxRequests
    /\ LET onlyVerified == onlyConfirmed IN
        last' = [NoCall EXCEPT
                    !.op = "onFiltersSubmit", !.seq = Len(reqs) + 1,
                    !.url = getAllNews(Some([tags |-> selectedTags,
                                             onlyVerified |-> onlyVerified]))]
    /\ newsList' = Null
    /\ heldSeq' = 0
    /\ reqs' = Append(reqs, [status |-> "pending", held |-> newsList])
    /\ UNCHANGED <<ngInit, selectedTags, onlyConfirmed>>

\* NewsPage.onFiltersSubmit
onFiltersSubmit ==
    /\ ngInit
    /\ Len(reqs) < MaxRequests
    /\ LET onlyVerified == onlyConfirmed IN
        last' = [NoCall EXCEPT
                    !.op = "onFiltersSubmit", !.seq = Len(reqs) + 1,
                    !.url = getAllNews(Some([tags |-> selectedTags,
                                             onlyVerified |-> onlyVerified]))]
    /\ reqs' = Append(reqs, [status |-> "pending", held |-> newsList])
    /\ UNCHANGED <<ngInit, selectedTags, onlyConfirmed, newsList, heldSeq>>

ListNext_ignoreStale(s, data) ==
    /\ s \in Pending
    /\ IF s > heldSeq
       THEN newsList' = Some(data) /\ heldSeq' = s
       ELSE UNCHANGED <<newsList, heldSeq>>
    /\ reqs' = [reqs EXCEPT ![s].status = "ok"]
    /\ last' = [NoCall EXCEPT !.op = "next", !.seq = s, !.data = data]
    /\ UNCHANGED <<ngInit, selectedTags, onlyConfirmed>>

\* the subscribe callback of both list fetches: (news) => newsList.set(news)
ListNext(s, data) ==
    /\ s \in Pending
    /\ newsList' = Some(data)
    /\ heldSeq' = s
    /\ reqs' = [reqs EXCEPT ![s].status = "ok"]
    /\ last' = [NoCall EXCEPT !.op = "next", !.seq = s, !.data = data]
    /\ UNCHANGED <<ngInit, selectedTags, onlyConfirmed>>

ListError_clearsList(s, kind) ==
    /\ s \in Pending
    /\ newsList' = Null
    /\ heldSeq' = 0
    /\ reqs' = [reqs EXCEPT ![s].status = "failed"]
    /\ last' = [NoCall EXCEPT !.op = "error", !.seq = s, !.kind = kind]
    /\ UNCHANGED <<ngInit, selectedTags, onlyConfirmed>>

\* a list fetch ending on the error channel: subscribe passes no error callback
ListError(s, kind) ==
    /\ s \in Pending
    /\ reqs' = [reqs EXCEPT ![s].status = "failed"]
    /\ last' = [NoCall EXCEPT !.op = "error", !.seq = s, !.kind = kind]
    /\ UNCHANGED <<ngInit, selectedTags, onlyConfirmed, newsList, heldSeq>>

\* --------------------------------------------------------- NewsDetailsPage

\* JavaScript truthiness of a string | null
Truthy(s) == s # Null /\ s[1] # << >>

\* the path segment after /news/ of a getNews URL
IdOfUrl(url) == SubSeq(url, Len(baseUrl) + 2, Len(url))

NewsDetailsPage_ngOnInit_noGuard ==
    /\ ~dInit
    /\ dInit' = TRUE
    /\ newsId' = routeParam
    /\ dReq' = Some(getNews(IF routeParam = Null THEN <<"null">> ELSE routeParam[1]))
    /\ dIssued' = dIssued + 1
    /\ UNCHANGED <<routeParam, store, news, dOutcome, dResp>>

\* NewsDetailsPage.ngOnInit
NewsDetailsPage_ngOnInit ==
    /\ ~dInit
    /\ dInit' = TRUE
    /\ newsId' = routeParam
    /\ IF Truthy(routeParam)
       THEN /\ dReq' = Some(getNews(routeParam[1]))
            /\ dIssued' = dIssued + 1
       ELSE UNCHANGED <<dReq, dIssued>>
    /\ UNCHANGED <<routeParam, store, news, dOutcome, dResp>>

\* GET {baseUrl}/news/{id} answered with the item of that identifier
DetailNext ==
    /\ dReq # Null
    /\ IdOfUrl(dReq[1]) \in store
    /\ news' = Some([id |-> IdOfUrl(dReq[1])])
    /\ dResp' = Some([id |-> IdOfUrl(dReq[1])])
    /\ dOutcome' = "ok"
    /\ dReq' = Null
    /\ UNCHANGED <<routeParam, store, dInit, newsId, dIssued>>

\* GET {baseUrl}/news/{id} ending on the error channel: no error callback
DetailError(kind) ==
    /\ dReq # Null
    /\ kind = "notfound" => IdOfUrl(dReq[1]) \notin store
    /\ dOutcome' = kind
    /\ dReq' = Null
    /\ UNCHANGED <<routeParam, store, dInit, newsId, news, dIssued, dResp>>

\* ----------------------------------------------------------- specifications

ListInit ==
    /\ ngInit = FALSE
    /\ selectedTags = << >>
    /\ onlyConfirmed = FALSE
    /\ newsList = Null
    /\ reqs = << >>
    /\ heldSeq = 0
    /\ last = NoCall

DetailInit ==
    /\ dInit = FALSE
    /\ newsId = Null
    /\ news = Null
    /\ dReq = Null
    /\ dIssued = 0
    /\ dOutcome = "none"
    /\ dResp = Null

\* NewsPage is the active route component
Init ==
    /\ ListInit
    /\ DetailInit
    /\ routeParam = Null
    /\ store = ItemIds

Next ==
    \/ NewsPage_ngOnInit /\ UNCHANGED detailVars
    \/ \E value \in BOOLEAN : SetOnlyConfirmed(value) /\ UNCHANGED detailVars
    \/ \E tag \in Range(tags), isChecked \in BOOLEAN :
           onTagChange(tag, isChecked) /\ UNCHANGED detailVars
    \/ onFiltersSubmit /\ UNCHANGED detailVars
    \/ \E s \in 1..MaxRequests, data \in NewsLists :
           ListNext(s, data) /\ UNCHANGED detailVars
    \/ \E s \in 1..MaxRequests, kind \in ListErrors :
           ListError(s, kind) /\ UNCHANGED detailVars

Spec == Init /\ [][Next]_vars

\* NewsDetailsPage is the active route component
InitDetail ==
    /\ ListInit
    /\ DetailInit
    /\ routeParam \in {Null} \cup { Some(id) : id \in RouteIds }
    /\ store \in SUBSET ItemIds

NextDetail ==
    \/ NewsDetailsPage_ngOnInit /\ UNCHANGED listVars
    \/ DetailNext /\ UNCHANGED listVars
    \/ \E kind \in {"notfound", "transport", "decode"} :
           DetailError(kind) /\ UNCHANGED listVars

SpecDetail == InitDetail /\ [][NextDetail]_vars

\* ------------------------------------------------- reading a request URL

\* index of the first occurrence of atom a in s, 0 when there is none
IndexOf(s, a) ==
    IF \E i \in 1..Len(s) : s[i] = a
    THEN CHOOSE i \in 1..Len(s) : s[i] = a /\ \A j \in 1..(i - 1) : s[j] # a
    ELSE 0

\* the pieces of s between occurrences of the separator atom
RECURSIVE Split(_, _)
Split(s, sep) ==
    LET i == IndexOf(s, sep) IN
    IF i = 0 THEN << s >>
    ELSE << SubSeq(s, 1, i - 1) >> \o Split(SubSeq(s, i + 1, Len(s)), sep)

HasQuery(url) == IndexOf(url, "?") # 0

\* the parameters of the query string, in order; none when there is no '?'
Params(url) ==
    IF HasQuery(url)
    THEN Split(SubSeq(url, IndexOf(url, "?") + 1, Len(url)), "&")
    ELSE << >>

IsTagsParam(p) == Len(p) > 0 /\ p[1] = "tags="

TagsParams(url) == SelectSeq(Params(url), IsTagsParam)

\* the tags a URL carries, in order
TagsOfUrl(url) ==
    IF Len(TagsParams(url)) = 0 THEN << >>
    ELSE Split(Tail(TagsParams(url)[1]), ",")

HasConfirmedParam(url) ==
    \E i \in 1..Len(Params(url)) : Params(url)[i] = <<"onlyConfirmed=true">>

Submitted == last.op = "onFiltersSubmit"

Issued(l) == l.op \in {"ngOnInit", "onFiltersSubmit"}

\* ------------------------------------------------------------------ claims

\* C1: selectedTags never contains the same tag twice.
C1_NoDuplicateTags ==
    \A i, j \in 1..Len(selectedTags) : selectedTags[i] = selectedTags[j] => i = j

\* C2: for a non-empty selection the request onFiltersSubmit issues carries
\* exactly one tags= parameter, whose value is the selected tags joined by
\* commas in selection order; selecting Finansy then Fintekh with
\* onlyConfirmed false requests /news?tags=Finansy,Fintekh.
C2_TagsJoinedInSelectionOrder ==
    (Submitted /\ Len(selectedTags) > 0) =>
        /\ Len(TagsParams(last.url)) = 1
        /\ Split(Tail(TagsParams(last.url)[1]), ",") = selectedTags
        /\ (selectedTags = tags /\ ~onlyConfirmed) =>
               last.url = baseUrl \o <<"/news", "?", "tags=", "Finansy", ",", "Fintekh">>

C2_Witness ==
    /\ Submitted
    /\ selectedTags = tags
    /\ ~onlyConfirmed
    /\ last.url = baseUrl \o <<"/news", "?", "tags=", "Finansy", ",", "Fintekh">>

\* C3: with an empty tag list and onlyVerified false the filtered call
\* issues the request of the unfiltered call: {baseUrl}/news, no '?'.
C3_EmptyFilterIsUnfiltered ==
    (Submitted /\ selectedTags = << >> /\ ~onlyConfirmed) =>
        /\ last.url = baseUrl \o <<"/news">>
        /\ ~HasQuery(last.url)
        /\ last.url = getAllNews(Null)

C3_Witness ==
    /\ Submitted
    /\ selectedTags = << >>
    /\ ~onlyConfirmed
    /\ last.url = baseUrl \o <<"/news">>

\* C4: the URL has onlyConfirmed=true iff onlyVerified, a tags parameter
\* iff the tag list is non-empty, no empty parameter, and with both present
\* they read tags=...&onlyConfirmed=true.
C4_ParamsPresentIffSet ==
    Submitted =>
        LET ps == Params(last.url) IN
        /\ HasConfirmedParam(last.url) <=> onlyConfirmed
        /\ (Len(TagsParams(last.url)) > 0) <=> (Len(selectedTags) > 0)
        /\ \A i \in 1..Len(ps) : ps[i] # << >>
        /\ HasQuery(last.url) <=> (onlyConfirmed \/ Len(selectedTags) > 0)
        /\ (onlyConfirmed /\ Len(selectedTags) > 0) =>
               /\ Len(ps) = 2
               /\ IsTagsParam(ps[1])
               /\ ps[2] = <<"onlyConfirmed=true">>

C4_Witness ==
    /\ Submitted
    /\ selectedTags = tags
    /\ onlyConfirmed
    /\ last.url = baseUrl \o <<"/news", "?", "tags=", "Finansy", ",", "Fintekh",
                               "&", "onlyConfirmed=true">>

\* C5: onTagChange(t, false) for a tag t not in selectedTags leaves
\* selectedTags unchanged, elements and order.
C5_UncheckAbsentIsNoOp ==
    [][(/\ last'.op = "onTagChange"
        /\ ~last'.isChecked
        /\ last'.tag \notin Range(selectedTags)) => selectedTags' = selectedTags]_vars

C5_Witness ==
    /\ last.op = "onTagChange"
    /\ ~last.isChecked
    /\ last.absent
    /\ Len(selectedTags) > 0
    /\ last.tag \notin Range(selectedTags)

C7_LastDeliveredWins ==
    [][/\ Issued(last') =>
            (/\ Len(reqs') = Len(reqs) + 1
             /\ Pending' = Pending \cup {Len(reqs) + 1})
       /\ last'.op = "next" =>
            (/\ last'.seq \in Pending
             /\ newsList' = Some(last'.data)
             /\ heldSeq' = last'.seq)]_vars

\* newsList holds an older request's result although a newer one's was delivered
C7_Witness ==
    /\ newsList # Null
    /\ heldSeq > 0
    /\ \E s \in 1..Len(reqs) : s > heldSeq /\ reqs[s].status = "ok"

\* C8 as stated: after a failed fetch newsList has the value it had when
\* that fetch was issued.
C8_FailureKeepsValueAtIssue ==
    last.op = "error" => newsList = reqs[last.seq].held

\* C8 as amended: a failing fetch never writes newsList: newsList keeps the
\* value it had just before the failure.
C8_FailureNeverWrites ==
    [][last'.op = "error" =>
            (/\ last'.seq \in Pending
             /\ newsList' = newsList
             /\ heldSeq' = heldSeq)]_vars

C8_Witness ==
    /\ last.op = "error"
    /\ reqs[last.seq].status = "failed"
    /\ newsList = Some(<<"1", "2", "3", "4", "5">>)

\* C9: news is non-null only if the route carried an identifier and getNews
\* delivered a response, and then news is that response; with no identifier
\* no fetch is ever issued; after NotFound news is null.
C9_DetailOnlyFromResponse ==
    /\ news # Null =>
           (/\ routeParam # Null
            /\ newsId = routeParam
            /\ dOutcome = "ok"
            /\ news = dResp
            /\ news[1].id = routeParam[1])
    /\ routeParam = Null => (dIssued = 0 /\ dReq = Null /\ news = Null)
    /\ dOutcome = "notfound" => news = Null
    /\ dIssued <= 1

C9_Witness ==
    /\ routeParam = Some(<<"3">>)
    /\ dOutcome = "ok"
    /\ news = Some([id |-> <<"3">>])

\* C10: only ngOnInit (one unfiltered request) and onFiltersSubmit (one
\* request, built from the selection at the call) issue list requests;
\* onTagChange issues none and leaves newsList; a delivered or failed fetch
\* issues none; onFiltersSubmit leaves selectedTags and onlyConfirmed.
C10_OnlySubmitAndInitIssue ==
    [][/\ Len(reqs') # Len(reqs) => (Issued(last') /\ Len(reqs') = Len(reqs) + 1)
       /\ last'.op = "ngOnInit" => (~ngInit /\ ~HasQuery(last'.url))
       /\ last'.op = "onFiltersSubmit" =>
            (/\ TagsOfUrl(last'.url) = selectedTags
             /\ HasConfirmedParam(last'.url) = onlyConfirmed
             /\ selectedTags' = selectedTags
             /\ onlyConfirmed' = onlyConfirmed)
       /\ last'.op = "onTagChange" => (reqs' = reqs /\ newsList' = newsList)
       /\ last'.op \in {"next", "error"} => Len(reqs') = Len(reqs)]_vars

C10_Witness ==
    /\ Submitted
    /\ Len(reqs) = 2
    /\ reqs[1].status = "failed"
    /\ Len(selectedTags) > 0
    /\ TagsOfUrl(last.url) = selectedTags

====
